---- MODULE Spec2Model ----
(***************************************************************************)
(* Telemetry pipeline of the crowd-analysis system.                        *)
(*                                                                         *)
(* Edge side (src/crowd_analysis.py): CrowdAnalyzer.process_frame with its *)
(* frame-skip policy, detection post-processing, heartbeat trigger and the *)
(* sender thread started by _send_data_to_server.                          *)
(* Collector side (src/server.py): receive_data (ingest), get_crowd_data   *)
(* and get_plot (query), sync_csv (resync).                                *)
(*                                                                         *)
(* Time is counted in whole seconds.  A wall-clock reading is a number of  *)
(* seconds since the epoch of the model (second 0 is midnight of day 0).   *)
(*                                                                         *)
(* The edge device and the collector are separate processes that share no  *)
(* state: Spec is the edge device (the collector's answer to a request is  *)
(* ReceiveDataStatus), FairSpec its dispatcher under fair scheduling of    *)
(* the sender thread, FailureSpec its frame loop when any step may raise,  *)
(* StopSpec the loop under the application's start and stop,               *)
(* TelemetrySpec its telemetry windows over a long run of frames.          *)
(* IngestSpec is the collector's ingest path with concurrent handlers,     *)
(* ArrivalSpec the same path with a moving clock, DeviceSpec the device    *)
(* registry, IdentitySpec the path fed with the dispatcher's payloads,     *)
(* QuerySpec the query endpoints over a store filled by ingests, SyncSpec  *)
(* the resync endpoint.                                                    *)
(***************************************************************************)
EXTENDS Integers, Sequences, FiniteSets, TLC

(***************************************************************************)
(* Bounds of the model.                                                    *)
(***************************************************************************)
\* Frames handed to process_frame.
MaxFrames == 8
\* Last reading of the edge clock, in seconds.
MaxTime == 7
\* Ingest requests the collector receives.
MaxRequests == 2
\* Requests the collector handles at the same time.
MaxHandlers == 2
\* Steps of the collector's clock.
MaxServerTicks == 1
\* Frames handed to process_frame in the run that follows the telemetry
\* windows.
MaxTelemetryFrames == 32
\* Files uploaded to the resync endpoint.
MaxUploads == 3

(***************************************************************************)
(* Program constants.                                                      *)
(***************************************************************************)
\* advanced_analytics_interval (the heartbeat interval), in seconds.
advanced_analytics_interval == 3
\* The anomaly cutoff of the edge device and of the collector.
AnomalyThreshold == 10
\* process_every on a Raspberry Pi and elsewhere.
ProcessEveryPi == 4
ProcessEveryOther == 2
\* frame_history = deque(maxlen=2)
FrameHistoryMaxLen == 2
\* people_counts, anomalies_log, processing_times = deque(maxlen=15)
TelemetryMaxLen == 15
\* Seconds of a calendar day: the date part of a timestamp text changes
\* every SecondsPerDay seconds.
SecondsPerDay == 86400
\* Character codes of the separator between the date and the time of day:
\* datetime.isoformat() writes 'T', SQLite's datetime() writes ' '.
SepT == 84
SepSpace == 32
\* Seconds of an hour: the unit of the query window.
SecondsPerHour == 3600
\* The default window of a query, in hours.
DefaultHours == 24

Min(a, b) == IF a < b THEN a ELSE b

(***************************************************************************)
(* Timestamps as texts.  A timestamp text is <<date, separator, time of    *)
(* day>>; texts are compared as SQLite compares TEXT values, character by  *)
(* character, which for these fixed-width texts is lexicographic order on  *)
(* the three parts.                                                        *)
(***************************************************************************)
\* datetime.now().isoformat(): 'YYYY-MM-DDTHH:MM:SS.ffffff'
IsoFormat(t) == <<t \div SecondsPerDay, SepT, t % SecondsPerDay>>

\* SQLite's datetime(...): 'YYYY-MM-DD HH:MM:SS'
SqliteDatetime(t) == <<t \div SecondsPerDay, SepSpace, t % SecondsPerDay>>

\* a >= b on TEXT values.
TextGE(a, b) ==
    \/ a[1] > b[1]
    \/ a[1] = b[1] /\ a[2] > b[2]
    \/ a[1] = b[1] /\ a[2] = b[2] /\ a[3] >= b[3]

(***************************************************************************)
(* Wire bodies.  A body is a byte string; what matters of it is whether it *)
(* is a zlib stream, and the text it holds.  A text is either a JSON       *)
(* object (a record of the fields present) or not JSON at all.             *)
(***************************************************************************)
NotJson == [not_json |-> TRUE]

\* requests.post(url, json=payload): the body is the JSON text itself.
JsonBody(payload) == [encoding |-> "json", content |-> payload]

\* zlib.compress(json.dumps(payload).encode()): what a compressing client sends.
ZlibBody(content) == [encoding |-> "zlib", content |-> content]

\* Bytes that are no zlib stream and no JSON text.
GarbageBody == [encoding |-> "raw", content |-> NotJson]

\* zlib.decompress(request.data).decode('utf-8'): raises zlib.error unless
\* the bytes are a zlib stream (a JSON text starts with '{', which is no
\* zlib header).
ZlibDecompress(body) ==
    IF body.encoding = "zlib"
    THEN [ok |-> TRUE, text |-> body.content]
    ELSE [ok |-> FALSE]

\* json.loads(json_data): raises on a text that is not JSON.
JsonLoads(text) ==
    IF text = NotJson
    THEN [ok |-> FALSE]
    ELSE [ok |-> TRUE, data |-> text]

\* Lines 58-61 of receive_data: decompress, then parse.
DecodeBody(body) ==
    LET z == ZlibDecompress(body)
    IN  IF ~z.ok THEN [ok |-> FALSE] ELSE JsonLoads(z.text)

\* A validation that looks for the count only.
HasCountField(data) == "count" \in DOMAIN data

\* Line 64 of receive_data.
HasRequiredFields(data) ==
    "count" \in DOMAIN data /\ "timestamp" \in DOMAIN data

(***************************************************************************)
(* Edge device: detection post-processing.                                 *)
(***************************************************************************)
\* n person boxes (x1, y1, x2, y2) of scene v.
Boxes(n, v) == [i \in 1..n |-> <<i, v, i + 1, v + 1>>]

\* What the detector can report for a frame, after the score and class
\* masks: the person boxes in pixel space.
DetectorOutputs == {Boxes(0, 0), Boxes(10, 0), Boxes(11, 0), Boxes(11, 1)}

\* detections[10:]
Tail10(detections) ==
    IF Len(detections) > AnomalyThreshold
    THEN SubSeq(detections, AnomalyThreshold + 1, Len(detections))
    ELSE <<>>

\* Lines 156-186 of process_frame: detections, count and anomalies.
DetectionFilter(person_boxes) ==
    LET detections == person_boxes
        count == Len(detections)
    IN  [detections |-> detections,
         count      |-> count,
         anomalies  |-> IF Len(person_boxes) > 0 /\ count > AnomalyThreshold
                        THEN Tail10(detections)
                        ELSE <<>>]

\* _draw_results: the tuple handed back to the caller (the frame left out).
DrawResults(detections, count) ==
    [count |-> count, detections |-> detections, anomalies |-> <<>>]

\* Cached results that are dropped instead of drawn.
DrawCachedResultsEmpty(detections, count) == DrawResults(<<>>, 0)

\* Lines 215-217, _draw_cached_results: the results kept in last_detections
\* and last_count are drawn on the (possibly interpolated) frame.
DrawCachedResults(detections, count) == DrawResults(detections, count)

\* An except branch that lets the exception out instead of returning.
RaisedException == [raised |-> TRUE]

\* The tuple of the except branch of process_frame: frame, 0, [], [].
FailedResult == [count |-> 0, detections |-> <<>>, anomalies |-> <<>>]

\* Line 74.
ProcessEvery(pi) == IF pi THEN ProcessEveryPi ELSE ProcessEveryOther

\* A skip policy that runs the detector on the first frame of every group.
ShouldProcessFirstOfGroup(counter, every) == counter % every = 1 % every

\* Line 122 (negated): the frame is run through the detector.
ShouldProcess(counter, every) == counter % every = 0

\* A trigger that waits for more than the interval.
SendDueStrictlyLater(current_time, last, interval) ==
    current_time - last > interval

\* Line 205: the send trigger.
SendDue(current_time, last, interval) == current_time - last >= interval

\* A dispatcher that never looks whether its thread has ended.
MayStartThreadOnce(thread, alive) == thread = 0

\* A dispatcher that starts a thread whatever the previous one does.
MayStartThreadAlways(thread, alive) == TRUE

\* Line 272: a new sender thread may be started.
MayStartThread(thread, alive) ==
    thread = 0 \/ ~(\E t \in alive : t.id = thread)

\* Lines 262-269: the payload of a send.
Payload(timestamp, count, detections, anomalies, pi) ==
    [timestamp  |-> timestamp,
     count      |-> count,
     detections |-> detections,
     frame_data |-> "jpeg-base64",
     anomalies  |-> Len(anomalies),
     device_id  |-> IF pi THEN "raspberry_pi" ELSE "unknown"]

\* receive_data as seen by its caller: the status of the response to `body`
\* when the store accepts the writes (storage_ok) or fails on them.
ReceiveDataStatus(body, storage_ok) ==
    LET d == DecodeBody(body)
    IN  IF ~d.ok THEN 500
        ELSE IF ~HasRequiredFields(d.data) THEN 400
        ELSE IF storage_ok THEN 200
        ELSE 500

(***************************************************************************)
(* Collector: the store and the pure parts of its handlers.                *)
(***************************************************************************)
Handlers == 1..MaxHandlers

\* SQL NULL is <<>>, a value v is <<v>>.
Null == <<>>
Some(v) == <<v>>

\* json.dumps(x): a text holding x; json.loads gives x back.
JsonDumps(x) == <<"json", x>>
JsonParse(text) == text[2]

\* init_db: three empty tables, with the columns and keys its CREATE TABLE
\* statements declare (the text of the first one carries a `#` comment,
\* which SQLite does not accept; the tables are taken as declared).
\* `upserted` lists the requests whose device
\* upsert is in the store (a row of devices is replaced by the next upsert
\* of the device, so the rows alone do not tell).
EmptyDb ==
    [crowd_data |-> <<>>, devices |-> {}, anomalies |-> <<>>, upserted |-> {}]

\* A store left by an earlier run of the collector in which the location
\* of cam-1 has been recorded (the column is declared at line 39; no
\* statement of server.py writes it).
LocatedDb ==
    [EmptyDb EXCEPT
       !.devices = {[device_id  |-> "cam-1",
                     last_seen  |-> IsoFormat(0),
                     ip_address |-> "10.0.0.7",
                     location   |-> Some("gate")]}]

IdleHandler == [pc |-> "idle"]

\* A lookup that answers the empty text for a missing header.
HeaderGetNoDefault(headers, name, default) ==
    IF \E p \in headers : p[1] = name
    THEN (CHOOSE p \in headers : p[1] = name)[2]
    ELSE ""

\* request.headers.get(name, default); headers are (name, value) pairs.
HeaderGet(headers, name, default) ==
    IF \E p \in headers : p[1] = name
    THEN (CHOOSE p \in headers : p[1] = name)[2]
    ELSE default

\* data.get(key, default)
DictGet(data, key, default) ==
    IF key \in DOMAIN data THEN data[key] ELSE default

\* A resolution that falls back on the device the payload names.
ResolveDeviceIdFromPayload(headers, data) ==
    HeaderGet(headers, "X-Device-ID",
              DictGet(data, "device_id", "default_device"))

\* Line 67: the device id is the value of the X-Device-ID header, or
\* 'default_device'; the payload is not consulted.
ResolveDeviceId(headers, data) ==
    HeaderGet(headers, "X-Device-ID", "default_device")

\* An upsert that updates last_seen and ip_address in place and keeps what
\* else the stored row holds.
ReplaceRowKeepLocation(rows, row) ==
    {r \in rows : r.device_id # row.device_id} \cup
    {[device_id  |-> row.device_id,
      last_seen  |-> row.last_seen,
      ip_address |-> row.ip_address,
      location   |-> IF \E r \in rows : r.device_id = row.device_id
                     THEN (CHOOSE r \in rows :
                              r.device_id = row.device_id).location
                     ELSE Null]}

\* INSERT OR REPLACE INTO devices (device_id, last_seen, ip_address): the
\* stored row with the same primary key is deleted and the new row
\* inserted; the column the statement does not name, location, is NULL.
ReplaceRow(rows, row) ==
    {r \in rows : r.device_id # row.device_id} \cup
    {[device_id  |-> row.device_id,
      last_seen  |-> row.last_seen,
      ip_address |-> row.ip_address,
      location   |-> Null]}

\* The effect of one SQL statement on a database content.
ApplyWrite(database, w) ==
    CASE w.table = "crowd_data" ->
           [database EXCEPT !.crowd_data = Append(@, w.row)]
      [] w.table = "devices" ->
           [database EXCEPT
              !.devices = ReplaceRow(@, w.row),
              !.upserted = @ \cup {w.row.req}]
      [] w.table = "anomalies" ->
           [database EXCEPT !.anomalies = Append(@, w.row)]

RECURSIVE ApplyAll(_, _)
ApplyAll(database, txn) ==
    IF txn = <<>> THEN database
    ELSE ApplyAll(ApplyWrite(database, Head(txn)), Tail(txn))

\* A store that drops a crowd_data row older than a stored row of its
\* device.
ExecuteNewestOnly(database, txn, w) ==
    IF /\ w.table = "crowd_data"
       /\ \E i \in DOMAIN database.crowd_data :
             /\ database.crowd_data[i].device_id = w.row.device_id
             /\ ~TextGE(w.row.timestamp, database.crowd_data[i].timestamp)
    THEN [db |-> database, txn |-> txn]
    ELSE [db |-> database, txn |-> Append(txn, w)]

\* A connection that makes every statement visible at once.
ExecuteAutocommit(database, txn, w) ==
    [db |-> ApplyWrite(database, w), txn |-> txn]

\* c.execute(...) of a writing statement on a connection of
\* sqlite3.connect(DB_NAME): the statement joins the connection's open
\* transaction; the committed content does not change before conn.commit().
Execute(database, txn, w) ==
    [db |-> database, txn |-> Append(txn, w)]

\* Lines 76-82: the row of crowd_data.
CrowdDataRow(h) ==
    [device_id  |-> h.device_id,
     count      |-> h.data.count,
     detections |-> JsonDumps(DictGet(h.data, "detections", <<>>)),
     timestamp  |-> h.data.timestamp,
     req        |-> h.req]

\* Lines 85-88: the row of devices.
DeviceRow(h, clock) ==
    [device_id  |-> h.device_id,
     last_seen  |-> IsoFormat(clock),
     ip_address |-> h.ip_address,
     req        |-> h.req]

\* Lines 92-95: the row of anomalies.
AnomalyRow(h) ==
    [device_id |-> h.device_id,
     count     |-> h.data.count,
     timestamp |-> h.data.timestamp,
     req       |-> h.req]

\* A cutoff that flags the threshold itself.
ExceedsThresholdInclusive(count) == count >= AnomalyThreshold

\* Line 91.
ExceedsThreshold(count) == count > AnomalyThreshold

\* WHERE device_id = ? AND timestamp >= datetime('now', '-<hours> hours')
InWindow(row, device_id, hours, clock) ==
    /\ row.device_id = device_id
    /\ TextGE(row.timestamp, SqliteDatetime(clock - hours * SecondsPerHour))

SelectWindow(database, device_id, hours, clock) ==
    SelectSeq(database.crowd_data,
              LAMBDA row : InWindow(row, device_id, hours, clock))

\* ORDER BY timestamp DESC (rows of equal timestamp in the order of the scan).
RECURSIVE InsertDesc(_, _)
InsertDesc(sorted, row) ==
    IF sorted = <<>> THEN <<row>>
    ELSE IF TextGE(Head(sorted).timestamp, row.timestamp)
         THEN <<Head(sorted)>> \o InsertDesc(Tail(sorted), row)
         ELSE <<row>> \o sorted

RECURSIVE OrderByTimestampDesc(_)
OrderByTimestampDesc(rows) ==
    IF rows = <<>> THEN <<>>
    ELSE InsertDesc(OrderByTimestampDesc(SubSeq(rows, 1, Len(rows) - 1)),
                    rows[Len(rows)])

RECURSIVE SumCounts(_)
SumCounts(rows) ==
    IF rows = <<>> THEN 0 ELSE Head(rows).count + SumCounts(Tail(rows))

SeqMax(rows) ==
    CHOOSE m \in {rows[i].count : i \in DOMAIN rows} :
        \A i \in DOMAIN rows : rows[i].count <= m

SeqMin(rows) ==
    CHOOSE m \in {rows[i].count : i \in DOMAIN rows} :
        \A i \in DOMAIN rows : rows[i].count >= m

\* SELECT AVG(count), MAX(count), MIN(count), COUNT(*): over no row the
\* aggregates are NULL and the count is 0.  The average is kept as the
\* fraction sum / n.
SelectStats(rows) ==
    IF rows = <<>>
    THEN [average |-> Null, max |-> Null, min |-> Null, samples |-> 0]
    ELSE [average |-> Some(<<SumCounts(rows), Len(rows)>>),
          max     |-> Some(SeqMax(rows)),
          min     |-> Some(SeqMin(rows)),
          samples |-> Len(rows)]

\* Lines 125-129: the rows as the response lists them.
FormatRows(rows) ==
    [i \in DOMAIN rows |->
        [timestamp  |-> rows[i].timestamp,
         count      |-> rows[i].count,
         detections |-> JsonParse(rows[i].detections)]]

\* Lines 142-150: the response of get_crowd_data.
CrowdDataResponse(data, stats) ==
    [endpoint |-> "data", status |-> 200,
     body |-> [data |-> data, stats |-> stats]]

\* Lines 174-199: the response of get_plot.
PlotResponse(rows) ==
    IF rows = <<>>
    THEN [endpoint |-> "plot", status |-> 404,
          body |-> [error |-> "No data available"]]
    ELSE [endpoint |-> "plot", status |-> 200,
          body |-> [image |-> [i \in DOMAIN rows |->
                                 <<rows[i].timestamp, rows[i].count>>]]]

\* A window that refuses the new sample once it is full.
DequeAppendKeepOldest(window, x) ==
    IF Len(window) < TelemetryMaxLen THEN Append(window, x) ELSE window

\* deque(maxlen=15).append(x): a full window drops its oldest sample.
DequeAppend(window, x) ==
    IF Len(window) < TelemetryMaxLen
    THEN Append(window, x)
    ELSE Append(Tail(window), x)

RECURSIVE SeqSum(_)
SeqSum(xs) == IF xs = <<>> THEN 0 ELSE Head(xs) + SeqSum(Tail(xs))

\* Lines 237-244, the dictionary get_statistics builds.  A quotient a / b
\* is kept as the pair <<a, b>>; dividing by zero raises ZeroDivisionError,
\* which leaves get_statistics.  The fps entry is
\* len(times) / (sum(times) / 1000), guarded by the emptiness of the window
\* only.
Statistics(current, counts, anomalies, times) ==
    IF times # <<>> /\ SeqSum(times) = 0
    THEN [called |-> TRUE, raised |-> "ZeroDivisionError"]
    ELSE [called |-> TRUE,
          raised |-> "",
          current_count |-> current,
          average_count |-> IF counts # <<>>
                            THEN <<SeqSum(counts), Len(counts)>>
                            ELSE <<0, 1>>,
          anomalies |-> Len(anomalies),
          fps |-> IF times # <<>>
                  THEN <<Len(times) * 1000, SeqSum(times)>>
                  ELSE <<0, 1>>,
          processing_time_ms |-> IF times # <<>>
                                 THEN <<SeqSum(times), Len(times)>>
                                 ELSE <<0, 1>>]

\* What process_frame can record for a frame: an empty scene handled within
\* one reading of the clock (0 ms), and a crowded scene handled in 4 ms.
TelemetrySamples ==
    {[boxes |-> Boxes(0, 0), ms |-> 0], [boxes |-> Boxes(11, 0), ms |-> 4]}

\* Line 103 of CrowdAnalyzer.__init__: the header row of a new cache file.
CacheHeader ==
    <<"timestamp", "count", "detections", "frame_data", "processing_time_ms">>

(***************************************************************************)
(* Lines of an uploaded CSV file.  A cell is a text, kept as the pair of   *)
(* what it spells and the value spelled (JsonDumps(x) is such a pair); a   *)
(* line is its cells joined by commas.                                     *)
(***************************************************************************)
IntCell(n) == <<"int", n>>
WordCell(w) == <<"word", w>>
TimestampCell(t) == <<"iso", IsoFormat(t)>>

\* The commas in the text of a cell: json.dumps writes a box as
\* "[x1, y1, x2, y2]" and separates the boxes by ", "; the other texts hold
\* no comma.
CommasIn(cell) ==
    IF cell[1] = "json" /\ Len(cell[2]) > 0 THEN 4 * Len(cell[2]) - 1 ELSE 0

\* The pieces str.split(',') cuts a cell into.
Pieces(cell) ==
    IF CommasIn(cell) = 0
    THEN <<cell>>
    ELSE [k \in 1..(CommasIn(cell) + 1) |-> <<"piece", cell, k>>]

\* line.decode('utf-8').strip().split(',')
RECURSIVE SplitComma(_)
SplitComma(line) ==
    IF line = <<>> THEN <<>>
    ELSE Pieces(Head(line)) \o SplitComma(Tail(line))

\* int(text) raises ValueError unless the text spells an integer.
IsIntText(text) == text[1] = "int"

\* The text of a cell as a column of the store holds it.
StoredText(cell) == IF cell[1] = "iso" THEN cell[2] ELSE cell

\* Lines 216-220 of sync_csv for one line: the row it inserts, or the
\* exception it raises (the unpacking into three names, or int(count)).
SyncRow(line, device_id, upload) ==
    LET parts == SplitComma(line)
    IN  IF Len(parts) # 3
        THEN [ok |-> FALSE, error |-> "ValueError: unpack"]
        ELSE IF ~IsIntText(parts[2])
        THEN [ok |-> FALSE, error |-> "ValueError: int"]
        ELSE [ok |-> TRUE,
              row |-> [device_id  |-> device_id,
                       count      |-> parts[2][2],
                       detections |-> StoredText(parts[3]),
                       timestamp  |-> StoredText(parts[1]),
                       req        |-> 0,
                       upload     |-> upload]]

\* INSERT OR IGNORE INTO crowd_data: the row is skipped when it violates a
\* uniqueness constraint.  The only key of crowd_data is its id (init_db,
\* lines 26-32), which AUTOINCREMENT draws afresh for every row: no row
\* ever conflicts with a stored one.
InsertOrIgnore(rows, row) == Append(rows, row)

\* Lines 215-220: the rows of the connection after the loop over the lines,
\* or the failure of the first line that raises.
RECURSIVE SyncRows(_, _, _, _)
SyncRows(rows, file, device_id, upload) ==
    IF file = <<>> THEN [ok |-> TRUE, rows |-> rows]
    ELSE LET r == SyncRow(Head(file), device_id, upload)
         IN  IF ~r.ok THEN [ok |-> FALSE, error |-> r.error]
             ELSE SyncRows(InsertOrIgnore(rows, r.row), Tail(file),
                           device_id, upload)

\* A line of three cells: timestamp, count, detections.
SyncLine(t, count, boxes) ==
    <<TimestampCell(t), IntCell(count), JsonDumps(boxes)>>

\* A line of four cells: timestamp, count, detections, snapshot reference.
FallbackLine(t, count, boxes, snapshot) ==
    <<TimestampCell(t), IntCell(count), JsonDumps(boxes), WordCell(snapshot)>>

\* The header row of crowd_cache.csv.
HeaderLine == [i \in DOMAIN CacheHeader |-> WordCell(CacheHeader[i])]

\* The files clients upload: one and two lines of three cells without
\* detections, a line of three cells with a detection, a line of four
\* cells, a line of three cells followed by one of four, and the cache
\* file as the edge device creates it.
SyncFiles ==
    {<<SyncLine(0, 3, Boxes(0, 0))>>,
     <<SyncLine(0, 3, Boxes(0, 0)), SyncLine(1, 11, Boxes(0, 0))>>,
     <<SyncLine(0, 3, Boxes(1, 0))>>,
     <<FallbackLine(0, 3, Boxes(1, 0), "null")>>,
     <<SyncLine(0, 3, Boxes(0, 0)), FallbackLine(1, 3, Boxes(0, 0), "null")>>,
     <<HeaderLine>>}

(***************************************************************************)
(* State.                                                                  *)
(***************************************************************************)
VARIABLES
    \* ---- CrowdAnalyzer (src/crowd_analysis.py) ----
    is_pi,                 \* self.is_pi
    running,               \* CrowdAnalysisApp.running (src/gui.py)
    frame_counter,         \* self.frame_counter
    frame_history_len,     \* len(self.frame_history)
    last_detections,       \* self.last_detections
    last_count,            \* self.last_count
    last_processed_frame,  \* self.last_processed_frame is not None
    last_send_time,        \* self.last_send_time
    send_thread,           \* self.send_thread: 0 for None, else the thread's id
    alive_threads,         \* the sender threads that are alive
    threads_created,       \* Thread objects created so far
    send_lock,             \* holder of self.send_lock, 0 when free
    cache_file,            \* the lines of crowd_cache.csv
    now,                   \* the edge device's clock
    \* ---- observations of the run (history variables) ----
    ev,                    \* the last call of process_frame and what it did
    detector_calls,        \* frames that took the detection path (line 135 on)
    last_attempt,          \* time of the last call of _send_data_to_server
    failed_sends,          \* sends that ended in a failure
    last_post,             \* the last body the collector was handed
    \* ---- collector (src/server.py) ----
    db,                    \* the committed content of crowd_data.db
    handlers,              \* the receive_data calls in progress
    write_lock,            \* the handler holding SQLite's write lock, 0 when free
    server_now,            \* the collector's clock
    requests,              \* ingest requests received so far
    served,                \* the ingest request answered last and its response
    query,                 \* the get_crowd_data call in progress
    query_resp,            \* the last response of a query endpoint
    \* ---- CrowdAnalyzer: the telemetry windows ----
    people_counts,         \* self.people_counts
    anomalies_log,         \* self.anomalies_log
    processing_times,      \* self.processing_times
    recorded,              \* every sample recorded so far (history variable)
    statistics,            \* what get_statistics answered, if it was the
                           \* last call on the analyzer
    \* ---- collector: sync_csv ----
    uploads,               \* files received by sync_csv so far
    synced,                \* the (device, file) pairs sync_csv has stored
    sync_resp              \* the last response of sync_csv, the upload it
                           \* answers and crowd_data as it was before

edgeVars ==
    <<is_pi, running, frame_counter, frame_history_len, last_detections, last_count,
      last_processed_frame, last_send_time, send_thread, alive_threads,
      threads_created, send_lock, cache_file, now>>

obsVars == <<ev, detector_calls, last_attempt, failed_sends, last_post>>

serverVars ==
    <<db, handlers, write_lock, server_now, requests, served, query, query_resp>>

statVars ==
    <<people_counts, anomalies_log, processing_times, recorded, statistics>>

syncVars == <<uploads, synced, sync_resp>>

vars == <<edgeVars, obsVars, serverVars, statVars, syncVars>>

NoStatistics == [called |-> FALSE]

\* trigger_locks: the locks the calling thread holds while lines 203-207
\* read and write last_send_time and send_thread (the with-block of
\* frame_lock ends at line 197, so none).
NoEvent ==
    [kind |-> "none", result |-> FailedResult, time |-> 0,
     interpolated |-> FALSE, triggered |-> FALSE, idle_before |-> TRUE,
     prepared |-> FALSE, started |-> FALSE, attempt_gap |-> 0,
     detected |-> FailedResult, trigger_locks |-> {}]

\* CrowdAnalyzer.__init__, and start_analysis of the application that owns
\* the analyzer: the frame loop is running.
InitWith(store) ==
    /\ is_pi \in BOOLEAN
    /\ running = TRUE
    /\ frame_counter = 0
    /\ frame_history_len = 0
    /\ last_detections = <<>>
    /\ last_count = 0
    /\ last_processed_frame = FALSE
    /\ last_send_time = 0
    /\ send_thread = 0
    /\ alive_threads = {}
    /\ threads_created = 0
    /\ send_lock = 0
    /\ cache_file = <<CacheHeader>>
    /\ now = 0
    /\ ev = NoEvent
    /\ detector_calls = 0
    /\ last_attempt = 0
    /\ failed_sends = 0
    /\ last_post = [posted |-> FALSE]
    /\ db = store
    /\ handlers = [h \in Handlers |-> IdleHandler]
    /\ write_lock = 0
    /\ server_now = 0
    /\ requests = 0
    /\ served = [req |-> 0]
    /\ query = [pc |-> "idle"]
    /\ query_resp = [endpoint |-> "none"]
    /\ people_counts = <<>>
    /\ anomalies_log = <<>>
    /\ processing_times = <<>>
    /\ recorded = <<>>
    /\ statistics = NoStatistics
    /\ uploads = 0
    /\ synced = {}
    /\ sync_resp = [status |-> 0]

\* The collector starts on the store init_db has created.
Init == InitWith(EmptyDb)

\* The clock advances by a second.
Tick ==
    /\ now < MaxTime
    /\ now' = now + 1
    /\ UNCHANGED <<is_pi, running, frame_counter, frame_history_len, last_detections,
                   last_count, last_processed_frame, last_send_time,
                   send_thread, alive_threads, threads_created, send_lock,
                   cache_file>>
    /\ UNCHANGED obsVars
    /\ UNCHANGED statVars
    /\ UNCHANGED <<serverVars, syncVars>>

(***************************************************************************)
(* process_frame                                                           *)
(***************************************************************************)
\* Lines 121-133: a skipped frame is drawn with the cached results.
SkipFrame ==
    /\ ~ShouldProcess(frame_counter + 1, ProcessEvery(is_pi))
    /\ frame_counter' = frame_counter + 1
    /\ frame_history_len' = Min(frame_history_len + 1, FrameHistoryMaxLen)
    /\ ev' = [NoEvent EXCEPT
                !.kind = "skipped",
                !.result = DrawCachedResults(last_detections, last_count),
                !.time = now,
                !.interpolated = (frame_history_len' >= 2 /\ last_processed_frame),
                !.idle_before = (alive_threads = {})]
    /\ UNCHANGED <<is_pi, running, last_detections, last_count, last_processed_frame,
                   last_send_time, send_thread, alive_threads, threads_created,
                   send_lock, cache_file, now>>
    /\ UNCHANGED <<detector_calls, last_attempt, failed_sends, last_post>>
    /\ statistics' = NoStatistics
    /\ UNCHANGED <<people_counts, anomalies_log, processing_times, recorded>>
    /\ UNCHANGED <<serverVars, syncVars>>

\* Lines 135-154 raise (the detector fails): the except branch returns
\* frame, 0, [], [] and nothing but the frame bookkeeping has changed.
DetectorFails ==
    /\ ShouldProcess(frame_counter + 1, ProcessEvery(is_pi))
    /\ frame_counter' = frame_counter + 1
    /\ frame_history_len' = Min(frame_history_len + 1, FrameHistoryMaxLen)
    /\ detector_calls' = detector_calls + 1
    /\ ev' = [NoEvent EXCEPT
                !.kind = "failed",
                !.result = FailedResult,
                !.time = now,
                !.idle_before = (alive_threads = {})]
    /\ UNCHANGED <<is_pi, running, last_detections, last_count, last_processed_frame,
                   last_send_time, send_thread, alive_threads, threads_created,
                   send_lock, cache_file, now>>
    /\ UNCHANGED <<last_attempt, failed_sends, last_post>>
    /\ statistics' = NoStatistics
    /\ UNCHANGED <<people_counts, anomalies_log, processing_times, recorded>>
    /\ UNCHANGED <<serverVars, syncVars>>

\* Lines 191-197 raise (the update of the statistics fails) after lines
\* 188-189 have cached the results: the except branch returns
\* frame, 0, [], [], no sample is recorded, the frame is not kept for
\* interpolation and the trigger is not evaluated.
UpdateFails(person_boxes) ==
    /\ ShouldProcess(frame_counter + 1, ProcessEvery(is_pi))
    /\ frame_counter' = frame_counter + 1
    /\ frame_history_len' = Min(frame_history_len + 1, FrameHistoryMaxLen)
    /\ detector_calls' = detector_calls + 1
    /\ LET r == DetectionFilter(person_boxes)
       IN  /\ last_detections' = r.detections
           /\ last_count' = r.count
           /\ ev' = [NoEvent EXCEPT
                       !.kind = "failed",
                       !.result = FailedResult,
                       !.time = now,
                       !.idle_before = (alive_threads = {}),
                       !.detected = r]
    /\ UNCHANGED <<is_pi, running, last_processed_frame,
                   last_send_time, send_thread, alive_threads, threads_created,
                   send_lock, cache_file, now>>
    /\ UNCHANGED <<last_attempt, failed_sends, last_post>>
    /\ statistics' = NoStatistics
    /\ UNCHANGED <<people_counts, anomalies_log, processing_times, recorded>>
    /\ UNCHANGED <<serverVars, syncVars>>

\* A call that starts two sender threads for one record.
SendDataToServerTwice(prepared, count, detections, anomalies) ==
    IF prepared /\ MayStartThread(send_thread, alive_threads)
    THEN [started |-> TRUE,
          thread  |-> threads_created + 1,
          alive   |-> alive_threads \cup
                      {[id |-> threads_created + i,
                        pc |-> "started",
                        payload |-> Payload(IsoFormat(now), count, detections,
                                            anomalies, is_pi)] : i \in 1..2}]
    ELSE [started |-> FALSE, thread |-> send_thread, alive |-> alive_threads]

\* Lines 246-277, _send_data_to_server: the thread set after the call.
\* prepared is FALSE when building the payload raises (the JPEG encoder):
\* the exception is logged and no thread is started.
SendDataToServer(prepared, count, detections, anomalies) ==
    IF prepared /\ MayStartThread(send_thread, alive_threads)
    THEN [started |-> TRUE,
          thread  |-> threads_created + 1,
          alive   |-> alive_threads \cup
                      {[id |-> threads_created + 1,
                        pc |-> "started",
                        payload |-> Payload(IsoFormat(now), count, detections,
                                            anomalies, is_pi)]}]
    ELSE [started |-> FALSE, thread |-> send_thread, alive |-> alive_threads]

\* A timer that is reset only when the send has started.
NextLastSendTimeIfStarted(last, current_time, due, started) ==
    IF due /\ started THEN current_time ELSE last

\* Lines 204-206: when the trigger fires, last_send_time is set to the
\* current time before _send_data_to_server is called, whatever the call
\* then does.
NextLastSendTime(last, current_time, due, started) ==
    IF due THEN current_time ELSE last

\* Lines 135-209: the frame is run through the detector, the results are
\* cached, the sample is recorded in the three windows (processing_time is
\* the measured duration of the call in milliseconds), the results are
\* drawn, and a send is triggered when it is due.
ProcessFrame(person_boxes, prepared, processing_time) ==
    /\ ShouldProcess(frame_counter + 1, ProcessEvery(is_pi))
    /\ frame_counter' = frame_counter + 1
    /\ frame_history_len' = Min(frame_history_len + 1, FrameHistoryMaxLen)
    /\ detector_calls' = detector_calls + 1
    /\ LET r == DetectionFilter(person_boxes)
           due == SendDue(now, last_send_time, advanced_analytics_interval)
           s == SendDataToServer(prepared, r.count, r.detections, r.anomalies)
       IN  /\ last_detections' = r.detections
           /\ last_count' = r.count
           /\ last_processed_frame' = TRUE
           /\ last_send_time' =
                 NextLastSendTime(last_send_time, now, due, s.started)
           /\ send_thread' = IF due THEN s.thread ELSE send_thread
           /\ alive_threads' = IF due THEN s.alive ELSE alive_threads
           /\ threads_created' =
                 IF due /\ s.started THEN threads_created + 1 ELSE threads_created
           /\ last_attempt' = IF due THEN now ELSE last_attempt
           /\ ev' = [kind |-> "processed",
                     result |-> DrawResults(r.detections, r.count),
                     time |-> now,
                     interpolated |-> FALSE,
                     triggered |-> due,
                     idle_before |-> (alive_threads = {}),
                     prepared |-> (due /\ prepared),
                     started |-> (due /\ s.started),
                     attempt_gap |-> IF due THEN now - last_attempt ELSE 0,
                     detected |-> r,
                     trigger_locks |-> {}]
           /\ people_counts' = DequeAppend(people_counts, r.count)
           /\ anomalies_log' = DequeAppend(anomalies_log, Len(r.anomalies))
           /\ processing_times' = DequeAppend(processing_times, processing_time)
           /\ recorded' = Append(recorded,
                                 [count |-> r.count,
                                  anomalies |-> Len(r.anomalies),
                                  processing_time |-> processing_time])
    /\ statistics' = NoStatistics
    /\ UNCHANGED <<is_pi, running, send_lock, cache_file, now>>
    /\ UNCHANGED <<failed_sends, last_post>>
    /\ UNCHANGED <<serverVars, syncVars>>

(***************************************************************************)
(* _send_data_thread                                                       *)
(***************************************************************************)
\* Line 282: the thread takes send_lock; lines 286-290: the request leaves.
ThreadPost(t) ==
    /\ t \in alive_threads
    /\ t.pc = "started"
    /\ send_lock = 0
    /\ send_lock' = t.id
    /\ alive_threads' = (alive_threads \ {t}) \cup {[t EXCEPT !.pc = "posting"]}
    /\ UNCHANGED <<is_pi, running, frame_counter, frame_history_len, last_detections,
                   last_count, last_processed_frame, last_send_time,
                   send_thread, threads_created, cache_file, now>>
    /\ UNCHANGED obsVars
    /\ UNCHANGED statVars
    /\ UNCHANGED <<serverVars, syncVars>>

\* Lines 286-305 after the request has left: requests.post raises (answered
\* is FALSE: a connection error or the timeout) or returns the collector's
\* response; the outcome is logged, the lock is released and the thread ends.
\* The cache file is not written on any path.
ThreadFinish(t, answered, storage_ok) ==
    /\ t \in alive_threads
    /\ t.pc = "posting"
    /\ send_lock = t.id
    /\ LET body == JsonBody(t.payload)
           status == ReceiveDataStatus(body, storage_ok)
           success == answered /\ status = 200
       IN  /\ failed_sends' = IF success THEN failed_sends ELSE failed_sends + 1
           /\ last_post' = IF answered
                           THEN [posted |-> TRUE, id |-> t.id,
                                 record |-> t.payload,
                                 decoded |-> DecodeBody(body), status |-> status]
                           ELSE last_post
    /\ send_lock' = 0
    /\ alive_threads' = alive_threads \ {t}
    /\ UNCHANGED <<is_pi, running, frame_counter, frame_history_len, last_detections,
                   last_count, last_processed_frame, last_send_time,
                   send_thread, threads_created, cache_file, now>>
    /\ UNCHANGED <<ev, detector_calls, last_attempt>>
    /\ UNCHANGED statVars
    /\ UNCHANGED <<serverVars, syncVars>>

(***************************************************************************)
(* The application's start and stop (src/gui.py)                           *)
(***************************************************************************)
\* A stop that waits for the sender thread before it returns.
StopCaptureJoining ==
    /\ alive_threads = {}
    /\ running' = FALSE
    /\ UNCHANGED <<is_pi, frame_counter, frame_history_len, last_detections,
                   last_count, last_processed_frame, last_send_time,
                   send_thread, alive_threads, threads_created, send_lock,
                   cache_file, now>>
    /\ UNCHANGED <<obsVars, statVars, serverVars, syncVars>>

\* Lines 318-325, stop_capture: the flag is cleared and the capture
\* released; the sender thread is neither joined nor told to stop.
StopCapture ==
    /\ running' = FALSE
    /\ UNCHANGED <<is_pi, frame_counter, frame_history_len, last_detections,
                   last_count, last_processed_frame, last_send_time,
                   send_thread, alive_threads, threads_created, send_lock,
                   cache_file, now>>
    /\ UNCHANGED <<obsVars, statVars, serverVars, syncVars>>

\* Lines 196-240, start_analysis (the start button is disabled while the
\* loop runs): the same analyzer goes on with the next frames.
StartAnalysis ==
    /\ ~running
    /\ running' = TRUE
    /\ UNCHANGED <<is_pi, frame_counter, frame_history_len, last_detections,
                   last_count, last_processed_frame, last_send_time,
                   send_thread, alive_threads, threads_created, send_lock,
                   cache_file, now>>
    /\ UNCHANGED <<obsVars, statVars, serverVars, syncVars>>

(***************************************************************************)
(* get_statistics                                                          *)
(***************************************************************************)
\* Lines 235-244.
GetStatistics ==
    /\ statistics' = Statistics(last_count, people_counts, anomalies_log,
                                processing_times)
    /\ UNCHANGED <<people_counts, anomalies_log, processing_times, recorded>>
    /\ UNCHANGED <<edgeVars, obsVars, serverVars, syncVars>>

(***************************************************************************)
(* Collector: receive_data                                                 *)
(***************************************************************************)
\* The bodies clients send at clock reading t: well-formed records above
\* the anomaly cutoff (the edge flagged nothing) and at the cutoff (the edge
\* flagged one), a record stamped earlier than it is sent, records lacking
\* a required field, the edge dispatcher's uncompressed JSON, and bodies
\* that do not parse.
AcceptableBodies(t) ==
    {ZlibBody([count |-> 11, timestamp |-> IsoFormat(t),
               detections |-> Boxes(1, 0), anomalies |-> 0]),
     ZlibBody([count |-> 10, timestamp |-> IsoFormat(t), anomalies |-> 1]),
     ZlibBody([count |-> 3, timestamp |-> IsoFormat(0)])}

IncompleteBodies(t) ==
    {ZlibBody([timestamp |-> IsoFormat(t)]),
     ZlibBody([count |-> 3])}

MalformedBodies(t) ==
    {JsonBody(Payload(IsoFormat(t), 3, <<>>, <<>>, FALSE)),
     ZlibBody(NotJson),
     GarbageBody}

IngestBodies(t) ==
    AcceptableBodies(t) \cup IncompleteBodies(t) \cup MalformedBodies(t)

IngestHeaders == {{}, {<<"X-Device-ID", "cam-1">>}}

\* The record of a finished request: its response and what the handler had
\* done by then.
Served(req, status, body, headers, executed) ==
    [req |-> req, status |-> status, body |-> body, headers |-> headers,
     executed |-> executed]

\* Lines 57-73: the body is decompressed, parsed and validated, the device
\* is resolved and a connection is opened.
ReceiveData(h, body, headers, ip) ==
    /\ handlers[h].pc = "idle"
    /\ requests < MaxRequests
    /\ requests' = requests + 1
    /\ LET req == requests + 1
           d == DecodeBody(body)
       IN  IF ~d.ok
           THEN /\ served' = Served(req, 500, body, headers, 0)
                /\ UNCHANGED handlers
           ELSE IF ~HasRequiredFields(d.data)
           THEN /\ served' = Served(req, 400, body, headers, 0)
                /\ UNCHANGED handlers
           ELSE /\ handlers' = [handlers EXCEPT ![h] =
                      [pc |-> "insert", req |-> req, body |-> body,
                       headers |-> headers, data |-> d.data,
                       device_id |-> ResolveDeviceId(headers, d.data),
                       ip_address |-> ip, txn |-> <<>>, executed |-> 0]]
                /\ UNCHANGED served
    /\ UNCHANGED <<db, write_lock, server_now, query, query_resp>>
    /\ UNCHANGED <<edgeVars, obsVars, statVars, syncVars>>

\* Lines 76-82: INSERT INTO crowd_data.  The first writing statement takes
\* SQLite's write lock.
InsertCrowdData(h) ==
    /\ handlers[h].pc = "insert"
    /\ write_lock = 0
    /\ {"count", "timestamp"} \subseteq DOMAIN handlers[h].data
    /\ LET e == Execute(db, handlers[h].txn, [table |-> "crowd_data",
                                              row |-> CrowdDataRow(handlers[h])])
       IN  /\ db' = e.db
           /\ handlers' = [handlers EXCEPT ![h].pc = "upsert",
                                           ![h].txn = e.txn,
                                           ![h].executed = @ + 1]
    /\ write_lock' = h
    /\ UNCHANGED <<server_now, requests, served, query, query_resp>>
    /\ UNCHANGED <<edgeVars, obsVars, statVars, syncVars>>

\* Lines 85-88: INSERT OR REPLACE INTO devices.
UpsertDevice(h) ==
    /\ handlers[h].pc = "upsert"
    /\ write_lock = h
    /\ LET e == Execute(db, handlers[h].txn, [table |-> "devices",
                                              row |-> DeviceRow(handlers[h], server_now)])
       IN  /\ db' = e.db
           /\ handlers' = [handlers EXCEPT
                 ![h].pc = IF ExceedsThreshold(handlers[h].data.count)
                           THEN "anomaly" ELSE "commit",
                 ![h].txn = e.txn,
                 ![h].executed = @ + 1]
    /\ UNCHANGED <<write_lock, server_now, requests, served, query, query_resp>>
    /\ UNCHANGED <<edgeVars, obsVars, statVars, syncVars>>

\* Lines 91-95: INSERT INTO anomalies.
LogAnomaly(h) ==
    /\ handlers[h].pc = "anomaly"
    /\ write_lock = h
    /\ LET e == Execute(db, handlers[h].txn, [table |-> "anomalies",
                                              row |-> AnomalyRow(handlers[h])])
       IN  /\ db' = e.db
           /\ handlers' = [handlers EXCEPT ![h].pc = "commit",
                                           ![h].txn = e.txn,
                                           ![h].executed = @ + 1]
    /\ UNCHANGED <<write_lock, server_now, requests, served, query, query_resp>>
    /\ UNCHANGED <<edgeVars, obsVars, statVars, syncVars>>

\* A handler that answers with success and drops the connection without
\* committing.
RespondWithoutCommit(h) ==
    /\ handlers[h].pc = "commit"
    /\ write_lock = h
    /\ write_lock' = 0
    /\ served' =
          Served(handlers[h].req, 200, handlers[h].body, handlers[h].headers,
                 handlers[h].executed)
    /\ handlers' = [handlers EXCEPT ![h] = IdleHandler]
    /\ UNCHANGED <<db, server_now, requests, query, query_resp>>
    /\ UNCHANGED <<edgeVars, obsVars, statVars, syncVars>>

\* Lines 97-100: conn.commit() makes the transaction visible, the
\* connection is closed and the success response is returned.
Commit(h) ==
    /\ handlers[h].pc = "commit"
    /\ write_lock = h
    /\ db' = ApplyAll(db, handlers[h].txn)
    /\ write_lock' = 0
    /\ served' =
          Served(handlers[h].req, 200, handlers[h].body, handlers[h].headers,
                 handlers[h].executed)
    /\ handlers' = [handlers EXCEPT ![h] = IdleHandler]
    /\ UNCHANGED <<server_now, requests, query, query_resp>>
    /\ UNCHANGED <<edgeVars, obsVars, statVars, syncVars>>

\* Lines 102-103: a statement or the commit raises (the database is locked
\* by another connection for longer than the busy timeout, a write error, a
\* missing key): the handler answers 500; the connection is dropped without
\* a commit, so its open transaction is rolled back and its lock released.
IngestFails(h) ==
    /\ handlers[h].pc \in {"insert", "upsert", "anomaly", "commit"}
    /\ write_lock' = IF write_lock = h THEN 0 ELSE write_lock
    /\ served' =
          Served(handlers[h].req, 500, handlers[h].body, handlers[h].headers,
                 handlers[h].executed)
    /\ handlers' = [handlers EXCEPT ![h] = IdleHandler]
    /\ UNCHANGED <<db, server_now, requests, query, query_resp>>
    /\ UNCHANGED <<edgeVars, obsVars, statVars, syncVars>>

(***************************************************************************)
(* Collector: get_crowd_data and get_plot                                  *)
(***************************************************************************)
QueryDevices == {"default_device"}
\* The windows asked for: the default of a day, and one hour.
QueryHours == {DefaultHours, 1}

\* Lines 109-129: the first SELECT and the formatted rows.
QueryRows(device_id, hours) ==
    /\ query.pc = "idle"
    /\ query' = [pc |-> "stats", device_id |-> device_id, hours |-> hours,
                 data |-> FormatRows(OrderByTimestampDesc(
                             SelectWindow(db, device_id, hours, server_now)))]
    /\ UNCHANGED <<db, handlers, write_lock, server_now, requests, served,
                   query_resp>>
    /\ UNCHANGED <<edgeVars, obsVars, statVars, syncVars>>

\* Lines 131-150: the second SELECT and the response.
QueryStats ==
    /\ query.pc = "stats"
    /\ query_resp' =
          CrowdDataResponse(query.data,
             SelectStats(SelectWindow(db, query.device_id, query.hours,
                                      server_now)))
    /\ query' = [pc |-> "idle"]
    /\ UNCHANGED <<db, handlers, write_lock, server_now, requests, served>>
    /\ UNCHANGED <<edgeVars, obsVars, statVars, syncVars>>

\* Lines 158-199.
GetPlot(device_id, hours) ==
    /\ query_resp' = PlotResponse(SelectWindow(db, device_id, hours, server_now))
    /\ UNCHANGED <<db, handlers, write_lock, server_now, requests, served, query>>
    /\ UNCHANGED <<edgeVars, obsVars, statVars, syncVars>>

\* Lines 204-228, sync_csv: the device is resolved, every line of the file
\* is inserted on one connection and the transaction is committed; when a
\* line raises, the handler answers 500 and the connection is dropped
\* without a commit.  The first insert waits for SQLite's write lock.
SyncCsv(file, headers) ==
    /\ write_lock = 0
    /\ LET device_id == HeaderGet(headers, "X-Device-ID", "default_device")
           r == SyncRows(db.crowd_data, file, device_id, uploads + 1)
       IN  /\ db' = IF r.ok THEN [db EXCEPT !.crowd_data = r.rows] ELSE db
           /\ synced' = IF r.ok THEN synced \cup {<<device_id, file>>}
                                ELSE synced
           /\ sync_resp' = [status    |-> IF r.ok THEN 200 ELSE 500,
                            file      |-> file,
                            device_id |-> device_id,
                            repeat    |-> <<device_id, file>> \in synced,
                            before    |-> db.crowd_data]
    /\ uploads' = uploads + 1
    /\ UNCHANGED <<handlers, write_lock, server_now, requests, served, query,
                   query_resp>>
    /\ UNCHANGED <<edgeVars, obsVars, statVars>>

\* The collector's clock advances by six hours.
ServerTick ==
    /\ server_now < MaxServerTicks * 6 * SecondsPerHour
    /\ server_now' = server_now + 6 * SecondsPerHour
    /\ UNCHANGED <<db, handlers, write_lock, requests, served, query, query_resp>>
    /\ UNCHANGED <<edgeVars, obsVars, statVars, syncVars>>

\* The collector runs on a machine of its own: the edge device's state plays
\* no part in it.
CollectorInit == Init /\ ~is_pi

\* The ingest path of the collector, with every kind of body and
\* concurrent handlers.
IngestNext ==
    \/ \E h \in Handlers, headers \in IngestHeaders :
          \E body \in IngestBodies(server_now) :
             ReceiveData(h, body, headers, "10.0.0.7")
    \/ \E h \in Handlers : InsertCrowdData(h)
    \/ \E h \in Handlers : UpsertDevice(h)
    \/ \E h \in Handlers : LogAnomaly(h)
    \/ \E h \in Handlers : Commit(h)
    \/ \E h \in Handlers : IngestFails(h)

IngestSpec == CollectorInit /\ [][IngestNext]_vars

\* The query endpoints, over a store filled by well-formed ingests.
QueryNext ==
    \/ ServerTick
    \/ \E headers \in IngestHeaders :
          \E body \in AcceptableBodies(server_now) :
             ReceiveData(1, body, headers, "10.0.0.7")
    \/ InsertCrowdData(1)
    \/ UpsertDevice(1)
    \/ LogAnomaly(1)
    \/ Commit(1)
    \/ IngestFails(1)
    \/ \E d \in QueryDevices, hours \in QueryHours : QueryRows(d, hours)
    \/ QueryStats
    \/ \E d \in QueryDevices, hours \in QueryHours : GetPlot(d, hours)

QuerySpec == CollectorInit /\ [][QueryNext]_vars

\* Ingests arriving one after the other while the collector's clock moves:
\* a record can be stamped before, at or after the records stored earlier.
ArrivalNext ==
    \/ ServerTick
    \/ \E headers \in IngestHeaders :
          \E body \in AcceptableBodies(server_now) :
             ReceiveData(1, body, headers, "10.0.0.7")
    \/ InsertCrowdData(1)
    \/ UpsertDevice(1)
    \/ LogAnomaly(1)
    \/ Commit(1)
    \/ IngestFails(1)

ArrivalSpec == CollectorInit /\ [][ArrivalNext]_vars

\* The device registry: ingests of one record arriving from two addresses,
\* with and without the device header, while the collector's clock moves,
\* on a store that holds a located device.
DeviceAddresses == {"10.0.0.7", "10.0.0.8"}

DeviceBodies(t) == {ZlibBody([count |-> 11, timestamp |-> IsoFormat(t)])}

DeviceInit == InitWith(LocatedDb) /\ ~is_pi

DeviceNext ==
    \/ ServerTick
    \/ \E headers \in IngestHeaders, ip \in DeviceAddresses :
          \E body \in DeviceBodies(server_now) :
             ReceiveData(1, body, headers, ip)
    \/ InsertCrowdData(1)
    \/ UpsertDevice(1)
    \/ LogAnomaly(1)
    \/ Commit(1)
    \/ IngestFails(1)

DeviceSpec == DeviceInit /\ [][DeviceNext]_vars

\* Records of the edge dispatcher at the collector: the payload of
\* _send_data_to_server from a Raspberry Pi and from another machine, as a
\* compressing client delivers it and as the dispatcher posts it, with no
\* device header (the dispatcher sets none) or with one.
IdentityBodies(t) ==
    {ZlibBody(Payload(IsoFormat(t), 11, Boxes(11, 0), Tail10(Boxes(11, 0)),
                      pi)) : pi \in BOOLEAN}
    \cup {JsonBody(Payload(IsoFormat(t), 11, Boxes(11, 0),
                           Tail10(Boxes(11, 0)), TRUE))}

IdentityNext ==
    \/ \E headers \in IngestHeaders :
          \E body \in IdentityBodies(server_now) :
             ReceiveData(1, body, headers, "10.0.0.7")
    \/ InsertCrowdData(1)
    \/ UpsertDevice(1)
    \/ LogAnomaly(1)
    \/ Commit(1)
    \/ IngestFails(1)

IdentitySpec == CollectorInit /\ [][IdentityNext]_vars

\* The resync endpoint, one upload after the other.
SyncNext ==
    /\ uploads < MaxUploads
    /\ \E file \in SyncFiles, headers \in IngestHeaders : SyncCsv(file, headers)

SyncSpec == CollectorInit /\ [][SyncNext]_vars

\* The edge device: frames, the clock and the sender thread.  A frame takes
\* less than the clock's resolution.
Next ==
    \/ Tick
    \/ frame_counter < MaxFrames /\ SkipFrame
    \/ frame_counter < MaxFrames /\ DetectorFails
    \/ /\ frame_counter < MaxFrames
       /\ \E b \in DetectorOutputs, prepared \in BOOLEAN :
             ProcessFrame(b, prepared, 0)
    \/ \E t \in alive_threads : ThreadPost(t)
    \/ \E t \in alive_threads, answered \in BOOLEAN, storage_ok \in BOOLEAN :
          ThreadFinish(t, answered, storage_ok)

Spec == Init /\ [][Next]_vars

\* The dispatcher under a stream of frames that all show the same crowded
\* scene: what the frames show plays no part in when a send starts or ends.
DispatchNext ==
    \/ Tick
    \/ frame_counter < MaxFrames /\ SkipFrame
    \/ /\ frame_counter < MaxFrames
       /\ \E prepared \in BOOLEAN : ProcessFrame(Boxes(11, 0), prepared, 0)
    \/ \E t \in alive_threads : ThreadPost(t)
    \/ \E t \in alive_threads, answered \in BOOLEAN, storage_ok \in BOOLEAN :
          ThreadFinish(t, answered, storage_ok)

\* The sender thread is scheduled by the interpreter, and requests.post
\* returns or raises within its timeout (line 289): a thread that can take
\* its next step does take it.
FairSpec ==
    /\ Init
    /\ [][DispatchNext]_vars
    /\ WF_vars(\E t \in alive_threads : ThreadPost(t))
    /\ WF_vars(\E t \in alive_threads, answered \in BOOLEAN,
                  storage_ok \in BOOLEAN : ThreadFinish(t, answered, storage_ok))

\* The frame loop under the application's start and stop buttons:
\* update_frame hands frames to process_frame only while running is set
\* (gui.py line 248).
StopNext ==
    \/ Tick
    \/ running /\ frame_counter < MaxFrames /\ SkipFrame
    \/ /\ running
       /\ frame_counter < MaxFrames
       /\ \E prepared \in BOOLEAN : ProcessFrame(Boxes(11, 0), prepared, 0)
    \/ StopCapture
    \/ StartAnalysis
    \/ \E t \in alive_threads : ThreadPost(t)
    \/ \E t \in alive_threads, answered \in BOOLEAN, storage_ok \in BOOLEAN :
          ThreadFinish(t, answered, storage_ok)

StopSpec ==
    /\ Init
    /\ [][StopNext]_vars
    /\ WF_vars(\E t \in alive_threads : ThreadPost(t))
    /\ WF_vars(\E t \in alive_threads, answered \in BOOLEAN,
                  storage_ok \in BOOLEAN : ThreadFinish(t, answered, storage_ok))

\* The frame loop when any step of process_frame may raise: the detector,
\* the update of the statistics, or the preparation of a send.
FailureNext ==
    \/ Tick
    \/ frame_counter < MaxFrames /\ SkipFrame
    \/ frame_counter < MaxFrames /\ DetectorFails
    \/ frame_counter < MaxFrames /\ UpdateFails(Boxes(11, 0))
    \/ /\ frame_counter < MaxFrames
       /\ \E prepared \in BOOLEAN : ProcessFrame(Boxes(11, 0), prepared, 0)
    \/ \E t \in alive_threads : ThreadPost(t)
    \/ \E t \in alive_threads, answered \in BOOLEAN, storage_ok \in BOOLEAN :
          ThreadFinish(t, answered, storage_ok)

FailureSpec == Init /\ [][FailureNext]_vars

(***************************************************************************)
(* Properties of the edge device.                                          *)
(***************************************************************************)
CeilDiv(n, k) == (n + k - 1) \div k

\* C1. At most one transmission is in progress: never two sender threads
\* alive (waiting for the lock or posting), and a trigger that fires while
\* a send is in flight starts no thread: its record is dropped.
C1_AtMostOneInFlight ==
    /\ Cardinality(alive_threads) <= 1
    /\ Cardinality({t \in alive_threads : t.pc = "posting"}) <= 1
    /\ (ev.triggered /\ ~ev.idle_before) => ~ev.started

\* A trigger fired while the previous send was still in flight.
C1_Witness ==
    /\ ev.kind = "processed"
    /\ ev.triggered
    /\ ~ev.idle_before
    /\ ~ev.started
    /\ Cardinality(alive_threads) = 1

\* C2. Fallback correctness: once the dispatcher is idle again, the cache
\* file holds one line per failed send, each the record that failed.
C2_FallbackLinePerFailedSend ==
    alive_threads = {} => Len(cache_file) = 1 + failed_sends

\* C3. Anomaly trigger: a processed frame whose count exceeds the anomaly
\* threshold triggers a send on that frame, however little time has passed
\* since the last send.
C3_AnomalyTriggersSend ==
    (ev.kind = "processed" /\ ev.detected.count > AnomalyThreshold)
        => ev.triggered

\* C4. Heartbeat cadence: two send attempts (calls of _send_data_to_server)
\* are never less than the heartbeat interval apart, and after every
\* processed frame less than one interval has passed since the last
\* attempt, so the attempt falls on the first processed frame at or after
\* the end of the interval.
C4_HeartbeatCadence ==
    /\ (ev.kind = "processed" /\ ev.triggered)
          => ev.attempt_gap >= advanced_analytics_interval
    /\ ev.kind = "processed"
          => ev.time - last_attempt < advanced_analytics_interval

\* The second heartbeat of a run of frames without anomaly.
C4_Witness ==
    /\ ev.kind = "processed"
    /\ ev.triggered
    /\ ev.detected.count <= AnomalyThreshold
    /\ ev.time >= 2 * advanced_analytics_interval
    /\ ev.attempt_gap >= advanced_analytics_interval
    /\ ev.attempt_gap < ev.time

\* C7. Wire round trip: the collector's decompress-and-parse step turns the
\* body the dispatcher sent back into the record it was built from.
C7_WireRoundTrip ==
    last_post.posted
        => last_post.decoded = [ok |-> TRUE, data |-> last_post.record]

C9_DetectionResultInvariant ==
    ev.kind # "none"
        => /\ ev.result.count = Len(ev.result.detections)
           /\ (ev.result.anomalies # <<>>) <=> (ev.result.count > AnomalyThreshold)
           /\ ev.result.count > AnomalyThreshold
                 => ev.result.anomalies = Tail10(ev.result.detections)

\* The telemetry windows over a long run of frames, read by get_statistics
\* between the frames.  The clock stands still: no send falls due.
TelemetryNext ==
    \/ frame_counter < MaxTelemetryFrames /\ SkipFrame
    \/ /\ frame_counter < MaxTelemetryFrames
       /\ \E sample \in TelemetrySamples :
             ProcessFrame(sample.boxes, TRUE, sample.ms)
    \/ GetStatistics

\* A device that is no Raspberry Pi runs every second frame through the
\* detector.
TelemetryInit == Init /\ ~is_pi

TelemetrySpec == TelemetryInit /\ [][TelemetryNext]_vars

\* C12. Dispatcher progress: a send that was started completes, whatever
\* its outcome, and the dispatcher is idle again with the lock released;
\* a trigger that fires when the dispatcher is idle and whose record could
\* be built starts a new send.
C12_DispatcherProgress ==
    /\ (alive_threads # {}) ~> (alive_threads = {})
    /\ [](alive_threads = {} => send_lock = 0)
    /\ []((ev.kind = "processed" /\ ev.triggered /\ ev.prepared
             /\ ev.idle_before) => ev.started)

\* A second send was started after the first one had ended in a failure.
C12_Witness ==
    /\ ev.kind = "processed"
    /\ ev.started
    /\ ev.idle_before
    /\ threads_created = 2
    /\ failed_sends = 1
    /\ Cardinality(alive_threads) = 1

\* The last n elements of s.
LastN(s, n) == SubSeq(s, Len(s) - n + 1, Len(s))

\* C18. Rolling buffer bound: the three windows have the same length, at
\* most 15, and hold the counts, anomaly counts and processing times of
\* the most recent min(n, 15) of the n samples recorded, oldest first.
C18_RollingWindow ==
    LET n == Min(Len(recorded), TelemetryMaxLen)
        recent == LastN(recorded, n)
    IN  /\ Len(people_counts) = n
        /\ Len(anomalies_log) = n
        /\ Len(processing_times) = n
        /\ \A i \in 1..n :
              /\ people_counts[i] = recent[i].count
              /\ anomalies_log[i] = recent[i].anomalies
              /\ processing_times[i] = recent[i].processing_time

\* The sixteenth sample has evicted the first, which differed from the
\* second.
C18_Witness ==
    /\ Len(recorded) = TelemetryMaxLen + 1
    /\ Len(people_counts) = TelemetryMaxLen
    /\ recorded[1].count # recorded[2].count
    /\ people_counts[1] = recorded[2].count
    /\ people_counts[TelemetryMaxLen] = recorded[TelemetryMaxLen + 1].count

\* C19. fps never divides by zero: get_statistics returns for every
\* content of the windows, with fps = 0 when they are empty.
C19_FpsNoZeroDivision ==
    statistics.called
        => /\ statistics.raised = ""
           /\ processing_times = <<>> => statistics.fps = <<0, 1>>

IsResultTuple(r) == DOMAIN r = {"count", "detections", "anomalies"}

\* C21. The frame loop never crashes: whatever raises inside process_frame
\* (the detector, the update of the statistics, the preparation of a send),
\* the call returns a result tuple; a failed frame returns frame, 0, [], [],
\* a frame whose send could not be prepared returns its own results, and
\* after a failed frame the next frame can be handed to process_frame.
C21_FrameLoopNeverCrashes ==
    /\ ev.kind # "none" => IsResultTuple(ev.result)
    /\ ev.kind = "failed" =>
          ev.result = [count |-> 0, detections |-> <<>>, anomalies |-> <<>>]
    /\ (ev.kind = "processed" /\ ev.triggered /\ ~ev.prepared) =>
          /\ ~ev.started
          /\ ev.result.count = ev.detected.count
          /\ ev.result.detections = ev.detected.detections
    /\ (ev.kind = "failed" /\ frame_counter < MaxFrames) =>
          ENABLED (SkipFrame
                   \/ \E prepared \in BOOLEAN :
                         ProcessFrame(Boxes(11, 0), prepared, 0))

\* A frame is processed and its send prepared after an earlier frame failed
\* in the detector or in the update of the statistics.
C21_Witness ==
    /\ ev.kind = "processed"
    /\ ev.prepared
    /\ detector_calls > Len(recorded) + 1
    /\ last_count = 11

\* C22. Non-blocking stop: stop_capture can complete while a transmission
\* is in flight, whatever the sender thread is doing; the stop leaves the
\* thread and its lock as they are (the thread is not cancelled); and the
\* thread of a stopped loop still runs to its end on its own.
C22_NonBlockingStop ==
    /\ []((running /\ alive_threads # {}) => ENABLED StopCapture)
    /\ [][(running /\ ~running') =>
             (alive_threads' = alive_threads /\ send_lock' = send_lock)]_vars
    /\ (~running /\ alive_threads # {}) ~> (alive_threads = {})

\* The loop is stopped while a request is on the wire.
C22_Witness ==
    /\ ~running
    /\ \E t \in alive_threads : t.pc = "posting"

C24_LockDiscipline ==
    /\ ev.kind = "processed" => ev.trigger_locks # {}
    /\ \A t \in alive_threads : t.pc = "posting" => send_lock = 0

HasSnapshot(record) == "frame_data" \in DOMAIN record

\* C25. Snapshot cadence: the frame snapshot is attached only to every Kth
\* triggered send for some K > 1, so of two sends started one after the
\* other at most one carries a snapshot.
C25_SnapshotCadence ==
    \A t \in alive_threads :
       (last_post.posted /\ t.id = last_post.id + 1) =>
          ~(HasSnapshot(last_post.record) /\ HasSnapshot(t.payload))

ThreadIds(threads) == {t.id : t \in threads}

\* C26. The trigger is evaluated at most once per processed frame and never
\* on a skipped frame: the timer is reset and a send starts only in a call
\* of process_frame that ran the detector and returned its results, a
\* skipped or failed frame neither triggers nor starts a send, and no call
\* starts more than one send.
C26_TriggerOncePerProcessedFrame ==
    [][/\ (\/ last_send_time' # last_send_time
           \/ send_thread' # send_thread
           \/ ThreadIds(alive_threads') \ ThreadIds(alive_threads) # {}) =>
             /\ frame_counter' = frame_counter + 1
             /\ detector_calls' = detector_calls + 1
             /\ ev'.kind = "processed"
             /\ ev'.triggered
       /\ (frame_counter' = frame_counter + 1
           /\ ev'.kind \in {"skipped", "failed"}) =>
             (~ev'.triggered /\ ~ev'.started)
       /\ Cardinality(ThreadIds(alive_threads') \ ThreadIds(alive_threads)) <= 1
      ]_vars

\* A processed frame whose trigger fired and started a send, while the
\* frame before it was skipped.
C26_Witness ==
    /\ ev.kind = "processed"
    /\ ev.triggered
    /\ ev.started
    /\ Cardinality(alive_threads) = 1
    /\ frame_counter > detector_calls

\* C27. A trigger that fires while a send is in flight resets the timer
\* although its record is dropped: last_send_time is always the time of the
\* last trigger, started or dropped, and a send starts only a full interval
\* or more after the previous trigger.
C27_DroppedTriggerResetsTimer ==
    /\ [](last_send_time = last_attempt)
    /\ []((ev.kind = "processed" /\ ev.triggered /\ ~ev.started) =>
             last_send_time = ev.time)
    /\ [][ThreadIds(alive_threads') \ ThreadIds(alive_threads) # {} =>
             now - last_attempt >= advanced_analytics_interval]_vars

\* A trigger fired while the previous send was in flight: nothing started,
\* and the timer was reset to the time of that frame.
C27_Witness ==
    /\ ev.kind = "processed"
    /\ ev.triggered
    /\ ~ev.idle_before
    /\ ev.prepared
    /\ ~ev.started
    /\ last_send_time = ev.time
    /\ ev.time >= 2 * advanced_analytics_interval

(***************************************************************************)
(* Properties of the collector.                                            *)
(***************************************************************************)
DataRowsOf(r) == {i \in DOMAIN db.crowd_data : db.crowd_data[i].req = r}
AnomalyRowsOf(r) == {i \in DOMAIN db.anomalies : db.anomalies[i].req = r}

\* Request r has left nothing in the store.
NoTraceOf(r) ==
    /\ DataRowsOf(r) = {}
    /\ AnomalyRowsOf(r) = {}
    /\ r \notin db.upserted

\* C5. Ingest atomicity: in every state of the store, the crowd-data row of
\* an ingest is visible exactly when its device upsert is, and then its
\* anomaly row is visible exactly when its count exceeds the threshold; an
\* ingest that failed midway has left nothing.
C5_IngestAtomic ==
    /\ \A r \in 1..requests :
          /\ (DataRowsOf(r) # {}) <=> (r \in db.upserted)
          /\ AnomalyRowsOf(r) # {} => DataRowsOf(r) # {}
          /\ \A i \in DataRowsOf(r) :
                (AnomalyRowsOf(r) # {})
                    <=> (db.crowd_data[i].count > AnomalyThreshold)
          /\ Cardinality(DataRowsOf(r)) <= 1
          /\ Cardinality(AnomalyRowsOf(r)) <= 1
    /\ (served.req # 0 /\ served.status # 200) => NoTraceOf(served.req)

\* An ingest failed after two of its statements, while the store holds the
\* rows of another ingest.
C5_Witness ==
    /\ served.req # 0
    /\ served.status = 500
    /\ served.executed = 2
    /\ NoTraceOf(served.req)
    /\ \E r \in 1..requests :
          /\ r # served.req
          /\ DataRowsOf(r) # {}
          /\ AnomalyRowsOf(r) # {}

\* The body parses to an object without `count` or without `timestamp`.
LacksRequiredField(body) ==
    LET d == DecodeBody(body)
    IN  d.ok /\ ~({"count", "timestamp"} \subseteq DOMAIN d.data)

\* C6. Required-field validation: an ingest whose payload lacks `count` or
\* `timestamp` is answered 400 before any statement is executed, and leaves
\* nothing in crowd_data, devices or anomalies.
C6_MissingFieldRejected ==
    (served.req # 0 /\ LacksRequiredField(served.body))
        => /\ served.status = 400
           /\ served.executed = 0
           /\ NoTraceOf(served.req)

\* A payload without timestamp was rejected while the store holds a row.
C6_Witness ==
    /\ served.req # 0
    /\ served.body = ZlibBody([count |-> 3])
    /\ served.status = 400
    /\ Len(db.crowd_data) = 1

\* C10. Empty query window: the query never answers with statistics
\* computed over zero samples; an empty window gets a "no data" result.
C10_EmptyWindowNoData ==
    query_resp.endpoint = "data"
        => ~(/\ "stats" \in DOMAIN query_resp.body
             /\ query_resp.body.stats.samples = 0)

\* The instant a timestamp text denotes, in seconds.
TimeOf(timestamp) == timestamp[1] * SecondsPerDay + timestamp[3]

\* The stored rows of the device that are not older than the window.
ExactWindow(database, device_id, hours, clock) ==
    SelectSeq(database.crowd_data,
              LAMBDA row : /\ row.device_id = device_id
                           /\ TimeOf(row.timestamp)
                                 >= clock - hours * SecondsPerHour)

\* C20. Query window filter: the rows a query returns are exactly the rows
\* of the device stamped at or after now - windowHours, and the statistics
\* of the response are those of the rows it returns, `samples` being their
\* number.
C20_WindowFilterExact ==
    [][/\ (query.pc = "idle" /\ query'.pc = "stats")
            => query'.data =
                  FormatRows(OrderByTimestampDesc(
                      ExactWindow(db, query'.device_id, query'.hours,
                                  server_now)))
       /\ (query.pc = "stats" /\ query'.pc = "idle")
            => /\ query_resp'.body.data = query.data
               /\ query_resp'.body.stats = SelectStats(query.data)
               /\ query_resp'.body.stats.samples = Len(query.data)]_vars

\* C11. Server-side anomaly flagging: an accepted ingest has appended
\* exactly one anomaly record, carrying its device, count and timestamp,
\* when its count exceeds the threshold, and none otherwise, whatever the
\* `anomalies` field of its payload says; only accepted ingests append.
C11_ServerSideAnomalyFlag ==
    /\ (served.req # 0 /\ served.status = 200) =>
          LET data == DecodeBody(served.body).data
              logged == AnomalyRowsOf(served.req)
          IN  /\ Cardinality(logged) =
                    IF data.count > AnomalyThreshold THEN 1 ELSE 0
              /\ \A j \in logged :
                    /\ db.anomalies[j].count = data.count
                    /\ db.anomalies[j].timestamp = data.timestamp
                    /\ \A i \in DataRowsOf(served.req) :
                          db.anomalies[j].device_id = db.crowd_data[i].device_id
    /\ \A r \in 1..requests : AnomalyRowsOf(r) # {} => DataRowsOf(r) # {}

\* An ingest of count 11 whose payload flags no anomaly was accepted and
\* logged, after an ingest of count 10 flagging one that was not logged.
C11_Witness ==
    /\ served.req # 0
    /\ served.status = 200
    /\ DecodeBody(served.body).data.count = AnomalyThreshold + 1
    /\ DecodeBody(served.body).data.anomalies = 0
    /\ Cardinality(AnomalyRowsOf(served.req)) = 1
    /\ \E i \in DOMAIN db.crowd_data :
          /\ db.crowd_data[i].count = AnomalyThreshold
          /\ AnomalyRowsOf(db.crowd_data[i].req) = {}

\* The body parses to an object with `count` and `timestamp`.
IsValidBody(body) ==
    LET d == DecodeBody(body)
    IN  d.ok /\ {"count", "timestamp"} \subseteq DOMAIN d.data

NoDeviceHeader(headers) == ~(\E p \in headers : p[1] = "X-Device-ID")

C16_OutOfOrderAccepted ==
    /\ (served.req # 0 /\ IsValidBody(served.body))
          => /\ served.status \in {200, 500}
             /\ served.status = 200
                   => \E i \in DataRowsOf(served.req) :
                         LET data == DecodeBody(served.body).data
                         IN  /\ db.crowd_data[i].timestamp = data.timestamp
                             /\ db.crowd_data[i].count = data.count
    /\ \A r \in 1..requests :
          r \in db.upserted => Cardinality(DataRowsOf(r)) = 1

\* An accepted ingest is stamped earlier than the row its device stored
\* before.
C16_Witness ==
    /\ served.req # 0
    /\ served.status = 200
    /\ \E i \in DataRowsOf(served.req), j \in DOMAIN db.crowd_data :
          /\ j < i
          /\ db.crowd_data[j].device_id = db.crowd_data[i].device_id
          /\ ~TextGE(db.crowd_data[i].timestamp, db.crowd_data[j].timestamp)

\* C28. Device upsert: the registry holds exactly one row per device id
\* seen; it changes only when an ingest is accepted, and then the row of the
\* ingest's device is replaced as a whole by the device id, the time of the
\* upsert and the address of that ingest, with no location, whatever was
\* stored for the device before; the rows of other devices stay.
C28_DeviceUpsert ==
    /\ [](\A d1, d2 \in db.devices : d1.device_id = d2.device_id => d1 = d2)
    /\ [](\A i \in DOMAIN db.crowd_data :
             \E d \in db.devices : d.device_id = db.crowd_data[i].device_id)
    /\ [][db'.devices # db.devices =>
             /\ served'.req = handlers[1].req
             /\ served'.status = 200]_vars
    /\ [][(/\ handlers[1].pc = "commit"
           /\ served'.req = handlers[1].req
           /\ served'.status = 200) =>
             LET h == handlers[1]
                 upsert == CHOOSE j \in DOMAIN h.txn : h.txn[j].table = "devices"
             IN  db'.devices =
                    {r \in db.devices : r.device_id # h.device_id} \cup
                    {[device_id  |-> h.device_id,
                      last_seen  |-> h.txn[upsert].row.last_seen,
                      ip_address |-> h.ip_address,
                      location   |-> Null]}]_vars

\* cam-1, stored with a location, has sent two accepted records, the second
\* six hours after the first and from another address: its one row shows
\* the second, without the location.
C28_Witness ==
    /\ served.req = 2
    /\ served.status = 200
    /\ Cardinality(DataRowsOf(1) \cup DataRowsOf(2)) = 2
    /\ \A i \in DOMAIN db.crowd_data : db.crowd_data[i].device_id = "cam-1"
    /\ db.devices = {[device_id  |-> "cam-1",
                      last_seen  |-> IsoFormat(6 * SecondsPerHour),
                      ip_address |-> "10.0.0.8",
                      location   |-> Null]}
    /\ db.crowd_data[1].timestamp = IsoFormat(0)

HeaderDeviceId(headers) ==
    IF NoDeviceHeader(headers)
    THEN "default_device"
    ELSE (CHOOSE p \in headers : p[1] = "X-Device-ID")[2]

PayloadDeviceIds == {"raspberry_pi", "unknown"}

C30_AcknowledgedImpliesCommitted ==
    /\ []((served.req # 0 /\ served.status = 200) =>
             /\ Cardinality(DataRowsOf(served.req)) = 1
             /\ \A i \in DataRowsOf(served.req) :
                   LET data == DecodeBody(served.body).data
                   IN  /\ db.crowd_data[i].count = data.count
                       /\ db.crowd_data[i].timestamp = data.timestamp)
    /\ []((served.req # 0 /\ served.status # 200) =>
             DataRowsOf(served.req) = {})
    /\ [](\A h \in Handlers :
             handlers[h].pc # "idle" => DataRowsOf(handlers[h].req) = {})
    /\ [][/\ \A i \in DOMAIN db.crowd_data :
                /\ i \in DOMAIN db'.crowd_data
                /\ db'.crowd_data[i] = db.crowd_data[i]
          /\ Len(db'.crowd_data) > Len(db.crowd_data) =>
                /\ Len(db'.crowd_data) = Len(db.crowd_data) + 1
                /\ served'.status = 200
                /\ served'.req = db'.crowd_data[Len(db'.crowd_data)].req
                /\ served' # served]_vars

\* An ingest has been acknowledged and its row is in the store, while
\* another handler has executed its statements and not yet committed: that
\* one has no row.
C30_Witness ==
    /\ served.req # 0
    /\ served.status = 200
    /\ Cardinality(DataRowsOf(served.req)) = 1
    /\ \E h \in Handlers :
          /\ handlers[h].pc = "commit"
          /\ handlers[h].executed >= 2
          /\ DataRowsOf(handlers[h].req) = {}

\* C17. Malformed payload: an ingest whose body cannot be decompressed or
\* parsed is answered with a client error (a 4xx status) before any
\* statement is executed, and leaves nothing in the store.
C17_MalformedClientError ==
    (served.req # 0 /\ ~DecodeBody(served.body).ok)
        => /\ served.status \in 400..499
           /\ served.executed = 0
           /\ NoTraceOf(served.req)

\* Rows of crowd_data inserted by the upload answered last.
SyncedRows == {i \in DOMAIN db.crowd_data :
                  /\ db.crowd_data[i].req = 0
                  /\ db.crowd_data[i].upload = uploads}

\* C13. Resync de-duplication: an upload of a file that the same device
\* has uploaded before leaves crowd_data as it was before the upload.
C13_ResyncIdempotent ==
    (sync_resp.status = 200 /\ sync_resp.repeat)
        => db.crowd_data = sync_resp.before

\* Every line of the file has the four cells timestamp, count, detections
\* and snapshot reference.
IsFallbackFile(file) ==
    \A i \in DOMAIN file :
        /\ Len(file[i]) = 4
        /\ file[i][1][1] = "iso"
        /\ file[i][2][1] = "int"
        /\ file[i][3][1] = "json"

\* C14. Fallback-log/resync compatibility: an upload of lines of the form
\* timestamp, count, detections, snapshot reference is accepted, and every
\* line has become a crowd-data row with its timestamp and count.
C14_FallbackLinesAccepted ==
    (sync_resp.status # 0 /\ IsFallbackFile(sync_resp.file))
        => /\ sync_resp.status = 200
           /\ Cardinality(SyncedRows) = Len(sync_resp.file)
           /\ \A k \in DOMAIN sync_resp.file :
                 \E i \in SyncedRows :
                    /\ db.crowd_data[i].timestamp = sync_resp.file[k][1][2]
                    /\ db.crowd_data[i].count = sync_resp.file[k][2][2]

====
